---- MODULE Spec2Model ----
(***************************************************************************)
(* Provider registry of airi (stage-ui providers store) and the provider   *)
(* settings forms of xai and ollama.                                       *)
(*                                                                         *)
(* JavaScript objects used as maps (providerCredentials, a provider's      *)
(* config, configuredProviders, availableModels, isLoadingModels,          *)
(* modelLoadError) are functions whose DOMAIN is the set of keys present:  *)
(* reading a missing key is JavaScript's undefined.                        *)
(***************************************************************************)
EXTENDS Integers, Sequences, FiniteSets, TLC

\* ------------------------------------------------------------------ bounds
\* updateConfigurationStatus runs that may be awaiting a probe at once
MaxRuns == 2
\* fetchModelsForProvider calls that may be awaiting listModels at once
MaxFetches == 2
\* validateConfiguration calls of a form that may be unfinished at once
MaxCalls == 2
\* evaluations of availableProvidersMetadata that may be in flight at once
MaxEvaluations == 2

\* ------------------------------------------------------- descriptor table
\* Two rows of providerMetadata: xai (presence-only validator, no
\* defaultOptions) and ollama (live-reachability validator, defaultOptions).
Providers == {"xai", "ollama"}

\* an id that is no key of providerMetadata
UnknownId == "no-such-provider"

OllamaDefaultBaseUrl == "http://localhost:11434/v1/"

\* the values a field is given in this model: empty, a key, a relative URL
\* and absolute URLs
OtherUrl == "http://h/v1/"
RelativeUrl == "api.example.com"

NULL == "null"

\* the empty object {}
EmptyObject == [k \in {} |-> ""]

\* k is a key of obj
Has(obj, k) == k \in DOMAIN obj

\* !!obj[k] for a string field: undefined and '' are falsy
Truthy(obj, k) == Has(obj, k) /\ obj[k] # ""

\* !!obj[k] for a boolean field: undefined and false are falsy
IsTrue(obj, k) == Has(obj, k) /\ obj[k]

\* obj[k] || '' for a string field
OrEmpty(obj, k) == IF Truthy(obj, k) THEN obj[k] ELSE ""

\* obj[k] = v on a JavaScript object
Put(obj, k, v) == [x \in (DOMAIN obj) \cup {k} |-> IF x = k THEN v ELSE obj[x]]

\* A third row, followed on the path of fetchModelsForProvider only:
\* player2-speech, which has defaultOptions and no capabilities.listModels.
Player2Speech == "player2-speech"
Player2DefaultBaseUrl == "http://localhost:4315/v1/"

\* A fourth row, followed on the path of initializeProvider only:
\* elevenlabs, whose defaultOptions() has a field besides baseUrl.
ElevenLabs == "elevenlabs"
ElevenLabsDefaultBaseUrl == "https://unspeech.hyp3r.link/v1/"

\* providerMetadata[providerId] is defined
HasMetadata(id) == id \in Providers \cup {Player2Speech, ElevenLabs}

\* metadata.defaultOptions: the function itself, present or not (line 318)
HasDefaultOptions(p) == p \in {"ollama", Player2Speech, ElevenLabs}

\* metadata.defaultOptions(): the object the function returns
defaultOptions(p) ==
    IF p = "ollama" THEN [baseUrl |-> OllamaDefaultBaseUrl]
    ELSE IF p = Player2Speech THEN [baseUrl |-> Player2DefaultBaseUrl]
    ELSE IF p = ElevenLabs
    THEN [baseUrl |-> ElevenLabsDefaultBaseUrl,
          voiceSettings |-> "{similarityBoost: 0.75, stability: 0.5}"]
    ELSE EmptyObject

\* the mutant of HasListModels: every row is taken to list models
HasListModelsAlways(p) == TRUE

\* metadata.capabilities.listModels is defined
HasListModels(p) == p \in {"xai", "ollama", ElevenLabs}

\* ------------------------------------------------------------- validators
\* isAbsoluteUrl of ../utils/string: scheme and host present
IsAbsoluteUrl(s) == s \in {OllamaDefaultBaseUrl, OtherUrl}

\* notBaseUrlError
notBaseUrlError ==
    [valid |-> FALSE, reason |-> "Base URL is not absolute. Check your input."]

\* what the probe of `${baseUrl}models` can answer: an ok status, a non-ok
\* status (its statusText), or a network failure (the rejection's text).
\* NoResponse stands for the argument of a hook that issues no probe.
ResponseOk == "OK"
Responses == {ResponseOk, "Internal Server Error", "TypeError: Failed to fetch"}
IsHttpStatus(r) == r \in {ResponseOk, "Internal Server Error"}
NoResponse == "TypeError: Failed to fetch"

\* xai.validators.validateProviderConfig
xaiValidateProviderConfig(config) ==
    [valid |-> Truthy(config, "apiKey") /\ Truthy(config, "baseUrl"),
     reason |->
        IF ~Truthy(config, "apiKey") /\ ~Truthy(config, "baseUrl")
        THEN "Error: API key is required., Error: Base URL is required."
        ELSE IF ~Truthy(config, "apiKey") THEN "Error: API key is required."
        ELSE IF ~Truthy(config, "baseUrl") THEN "Error: Base URL is required."
        ELSE ""]

\* the configs the hook of openai-compatible is called with: apiKey missing,
\* empty or set; baseUrl missing, empty, relative or absolute
OpenAiCompatibleConfigs ==
    {[apiKey |-> a, baseUrl |-> b] :
        a \in {"", "sk-key"}, b \in {"", RelativeUrl, OtherUrl}}
    \cup {[baseUrl |-> b] : b \in {"", RelativeUrl, OtherUrl}}
    \cup {[apiKey |-> "sk-key"], EmptyObject}

\* errors.filter(e => e).map(e => String(e)).join(', ') || '' of the
\* openai-compatible hook
openaiCompatibleReason(config) ==
    IF ~Truthy(config, "apiKey") /\ ~Truthy(config, "baseUrl")
    THEN "Error: API key is required, Error: Base URL is required"
    ELSE IF ~Truthy(config, "apiKey") THEN "Error: API key is required"
    ELSE IF ~Truthy(config, "baseUrl") THEN "Error: Base URL is required"
    ELSE ""

\* the mutant of openaiCompatibleValidateProviderConfig: the missing fields
\* are reported before the URL is looked at
openaiCompatiblePresenceFirst(config) ==
    IF ~Truthy(config, "apiKey") \/ ~Truthy(config, "baseUrl")
    THEN [valid |-> FALSE, reason |-> openaiCompatibleReason(config)]
    ELSE IF ~IsAbsoluteUrl(config["baseUrl"]) THEN notBaseUrlError
    ELSE [valid |-> TRUE, reason |-> ""]

\* openai-compatible.validators.validateProviderConfig
openaiCompatibleValidateProviderConfig(config) ==
    IF Truthy(config, "baseUrl") /\ ~IsAbsoluteUrl(config["baseUrl"])
    THEN notBaseUrlError
    ELSE [valid |-> Truthy(config, "apiKey") /\ Truthy(config, "baseUrl"),
          reason |-> openaiCompatibleReason(config)]

\* the mutant of ollamaNeedsProbe: the fetch is issued for any non-empty
\* baseUrl
ollamaNeedsProbeWhenPresent(config) == Truthy(config, "baseUrl")

\* ollama.validators.validateProviderConfig reaches its fetch: the presence
\* checks passed
ollamaNeedsProbe(config) ==
    Truthy(config, "baseUrl") /\ IsAbsoluteUrl(config["baseUrl"])

\* the mutant of ollamaValidateProviderConfig: response.ok is not read, any
\* answer of the server counts as reachable
ollamaValidateProviderConfigAnyStatus(config, response) ==
    IF ~Truthy(config, "baseUrl")
    THEN [valid |-> FALSE,
          reason |-> "Base URL is required. Default to http://localhost:11434/v1/ for Ollama."]
    ELSE IF ~IsAbsoluteUrl(config["baseUrl"]) THEN notBaseUrlError
    ELSE IF IsHttpStatus(response) THEN [valid |-> TRUE, reason |-> ""]
    ELSE [valid |-> FALSE,
          reason |-> "Failed to reach Ollama server, error: " \o response \o " occurred."]

\* ollama.validators.validateProviderConfig; response is read only when the
\* probe is issued
ollamaValidateProviderConfig(config, response) ==
    IF ~Truthy(config, "baseUrl")
    THEN [valid |-> FALSE,
          reason |-> "Base URL is required. Default to http://localhost:11434/v1/ for Ollama."]
    ELSE IF ~IsAbsoluteUrl(config["baseUrl"]) THEN notBaseUrlError
    ELSE IF response = ResponseOk THEN [valid |-> TRUE, reason |-> ""]
    ELSE IF IsHttpStatus(response)
    THEN [valid |-> FALSE,
          reason |-> "Error: Ollama server returned non-ok status code: " \o response]
    ELSE [valid |-> FALSE,
          reason |-> "Failed to reach Ollama server, error: " \o response \o " occurred."]

\* the hook's result is only known after a network round trip
NeedsProbe(p, config) == p = "ollama" /\ ollamaNeedsProbe(config)

\* metadata.validators.validateProviderConfig(config) of provider p
validateProviderConfig(p, config, response) ==
    IF p = "ollama" THEN ollamaValidateProviderConfig(config, response)
    ELSE xaiValidateProviderConfig(config)

\* the settled promise of an async function
Resolved(v) == [kind |-> "resolved", value |-> v, error |-> ""]
Rejected(e) == [kind |-> "rejected", value |-> FALSE, error |-> e]

\* the mutant of validateProvider: an invalid result is returned, not thrown
validateProviderNoThrow(id, creds, response) ==
    IF ~Has(creds, id) \/ id \notin Providers THEN Resolved(FALSE)
    ELSE Resolved(validateProviderConfig(id, creds[id], response).valid)

\* the mutant of validateProvider: a missing config or descriptor is an error
validateProviderNotFound(id, creds, response) ==
    IF ~Has(creds, id) \/ id \notin Providers THEN Rejected("NotFound")
    ELSE LET validationResult == validateProviderConfig(id, creds[id], response)
         IN  IF ~validationResult.valid THEN Rejected(validationResult.reason)
             ELSE Resolved(validationResult.valid)

\* validateProvider(providerId): how its promise settles
validateProvider(id, creds, response) ==
    IF ~Has(creds, id) THEN Resolved(FALSE)
    ELSE IF id \notin Providers THEN Resolved(FALSE)
    ELSE LET validationResult == validateProviderConfig(id, creds[id], response)
         IN  IF ~validationResult.valid THEN Rejected(validationResult.reason)
             ELSE Resolved(validationResult.valid)

\* ------------------------------------------------------------------ state
VARIABLES
    providerCredentials,  \* useLocalStorage('settings/credentials/providers')
    configuredProviders,  \* ref<Record<string, boolean>>
    runs,                 \* updateConfigurationStatus calls awaiting a probe,
                          \* oldest first: provider -> the baseUrl it probes
    availableModels,      \* ref<Record<string, ModelInfo[]>>
    isLoadingModels,      \* ref<Record<string, boolean>>
    modelLoadError,       \* ref<Record<string, string | null>>
    fetches,              \* fetchModelsForProvider calls awaiting listModels,
                          \* oldest first
    event,                \* the handler that ran last and how its promise settled
    form,                 \* the mounted settings form: its refs, its timers and
                          \* its pending validateConfiguration calls
    availability          \* availableProvidersMetadata: its value, the runs of
                          \* its evaluation and what the predicates answer

vars == <<providerCredentials, configuredProviders, runs, availableModels,
          isLoadingModels, modelLoadError, fetches, event, form,
          availability>>

\* ----------------------------------------------------- credential store
\* the mutant of initializeProvider: the entry is written even when present
initializeProviderOverwriting(creds, p) ==
    Put(creds, p, [baseUrl |-> OrEmpty(defaultOptions(p), "baseUrl")])

\* the mutant of initializeProvider: the entry is the defaults themselves,
\* with baseUrl set
initializeProviderSpreading(creds, p) ==
    IF ~Has(creds, p)
    THEN Put(creds, p,
            Put(defaultOptions(p), "baseUrl", OrEmpty(defaultOptions(p), "baseUrl")))
    ELSE creds

\* initializeProvider(providerId)
initializeProvider(creds, p) ==
    IF ~Has(creds, p)
    THEN Put(creds, p, [baseUrl |-> OrEmpty(defaultOptions(p), "baseUrl")])
    ELSE creds

\* Object.keys(providerMetadata).forEach(initializeProvider)
InitializeAll(creds) == initializeProvider(initializeProvider(creds, "ollama"), "xai")

\* ------------------------------------------------ configuration status
\* validateProvider(p) is still awaiting the hook's probe after the turn
Probing(p, creds) == Has(creds, p) /\ NeedsProbe(p, creds[p])

\* the mutant of StatusOf: no catch, the rejection escapes the callback and
\* the entry stays as it was
StatusOfNoCatch(outcome, previous) ==
    IF outcome.kind = "rejected"
    THEN [status |-> previous, kind |-> "rejected"]
    ELSE [status |-> outcome.value, kind |-> "resolved"]

\* try { configured[p] = await validateProvider(p) } catch { configured[p] = false }
\* status: the value written; kind: how the callback's own promise settles
StatusOf(outcome, previous) ==
    IF outcome.kind = "rejected"
    THEN [status |-> FALSE, kind |-> "resolved"]
    ELSE [status |-> outcome.value, kind |-> "resolved"]

\* configuredProviders[p] || false
Previous(conf, p) == IsTrue(conf, p)

\* the mutant of ConfiguredAfterRun: the statuses are left for a later run
ConfiguredNotYet(conf, creds) == conf

\* the mutant of ConfiguredAfterRun: the validations are awaited one after the
\* other in Object.keys order, so nothing is written behind a pending probe
ConfiguredAfterRunSequential(conf, creds) ==
    IF Probing("ollama", creds) THEN conf
    ELSE [p \in (DOMAIN conf) \cup Providers |->
            IF p \in Providers
            THEN StatusOf(validateProvider(p, creds, NoResponse), Previous(conf, p)).status
            ELSE conf[p]]

\* configuredProviders once the validations of one updateConfigurationStatus
\* call that need no probe have settled
ConfiguredAfterRun(conf, creds) ==
    [p \in (DOMAIN conf) \cup {q \in Providers : ~Probing(q, creds)} |->
        IF p \in Providers /\ ~Probing(p, creds)
        THEN StatusOf(validateProvider(p, creds, NoResponse), Previous(conf, p)).status
        ELSE conf[p]]

\* await Promise.all(...): rejected as soon as one callback rejects
PromiseAll(kinds) == IF "rejected" \in kinds THEN "rejected" ELSE "resolved"

\* how the callbacks of one updateConfigurationStatus call that need no probe
\* settle
KindsAfterRun(conf, creds) ==
    {StatusOf(validateProvider(p, creds, NoResponse), Previous(conf, p)).kind :
        p \in {q \in Providers : ~Probing(q, creds)}}

\* the validations of one updateConfigurationStatus call that await a probe:
\* url is the baseUrl the hook read when it was called; late records that a
\* validation of the same provider started after this one has settled
NewRun(creds) ==
    [p \in {q \in Providers : Probing(q, creds)} |->
        [url |-> creds[p]["baseUrl"], late |-> FALSE]]

\* the pending validations of the providers of P become late
MarkLate(rs, P) ==
    [i \in 1..Len(rs) |->
        [p \in DOMAIN rs[i] |->
            IF p \in P THEN [rs[i][p] EXCEPT !.late = TRUE] ELSE rs[i][p]]]

\* updateConfigurationStatus(): the pending calls after one more call
RunsAfter(rs, creds) ==
    IF DOMAIN NewRun(creds) = {}
    THEN MarkLate(rs, Providers)
    ELSE Append(MarkLate(rs, {q \in Providers : ~Probing(q, creds)}), NewRun(creds))

\* --------------------------------------------------------- model catalog
\* what listModels can resolve with: the vendor's models, each carrying the
\* provider the vendor call wrote into it
VendorModel(id) == [id |-> id, provider |-> "vendor"]
VendorLists ==
    {<<VendorModel("m1")>>, <<VendorModel("m1"), VendorModel("m2")>>}

\* what a failing listModels throws
Thrown == {[isError |-> TRUE, message |-> "Failed to fetch"]}

\* error instanceof Error ? error.message : 'Unknown error'
ErrorMessage(thrown) == IF thrown.isError THEN thrown.message ELSE "Unknown error"

\* the mutant of TagModels: the vendor's provider value is kept
TagModelsAsReturned(models, p) == models

\* models.map(model => ({ ...fields of model, provider: providerId }))
TagModels(models, p) ==
    [i \in 1..Len(models) |-> [id |-> models[i].id, provider |-> p]]

\* getModelsForProvider(providerId)
getModelsForProvider(p) ==
    IF Has(availableModels, p) THEN availableModels[p] ELSE <<>>

\* Object.keys order of the credential store: the order of providerMetadata
ProviderOrder == <<"ollama", "xai">>

\* the mutant of availableProviders: every provider of the table is listed
availableProvidersUnfiltered(conf) == ProviderOrder

\* Object.keys(providerMetadata).filter(providerId => configuredProviders.value[providerId])
availableProviders(conf) ==
    LET isConfigured(p) == IsTrue(conf, p)
    IN  SelectSeq(ProviderOrder, isConfigured)

\* for (const providerId of ps) models.push(...(availableModels.value[providerId] || []))
RECURSIVE PushModels(_, _)
PushModels(ps, i) ==
    IF i > Len(ps) THEN <<>>
    ELSE getModelsForProvider(ps[i]) \o PushModels(ps, i + 1)

\* the computed list of the models of all configured providers
allAvailableModels == PushModels(availableProviders(configuredProviders), 1)

\* the pending fetchModelsForProvider calls of provider p
FetchesOf(fs, p) == {i \in 1..Len(fs) : fs[i].p = p}

\* s without its i-th element
RemoveAt(s, i) == [j \in 1..(Len(s) - 1) |-> IF j < i THEN s[j] ELSE s[j + 1]]

\* JSON.stringify of a config of string fields: its key/value pairs;
\* of a missing entry: undefined
Stringify(creds, p) ==
    IF Has(creds, p) THEN {<<k, creds[p][k]>> : k \in DOMAIN creds[p]}
    ELSE {<<"undefined", "undefined">>}

\* the mutant of ChangedProviders: every provider counts as changed
ChangedProvidersAll(newCreds, oldCreds) == DOMAIN newCreds

\* changedProviders of the refetch watcher
ChangedProviders(newCreds, oldCreds) ==
    {p \in DOMAIN newCreds : Stringify(newCreds, p) # Stringify(oldCreds, p)}

\* the providers the refetch watcher calls fetchModelsForProvider for; conf
\* is configuredProviders as the watcher reads it
ToRefetch(newCreds, oldCreds, conf) ==
    {p \in ChangedProviders(newCreds, oldCreds) :
        IsTrue(conf, p) /\ p \in Providers /\ HasListModels(p)}

\* the part of fetchModelsForProvider before its await, for the providers of
\* F in Object.keys order
RECURSIVE StartFetches(_, _, _)
StartFetches(cat, F, i) ==
    IF i > Len(ProviderOrder) THEN cat
    ELSE IF ProviderOrder[i] \notin F THEN StartFetches(cat, F, i + 1)
    ELSE StartFetches(
            [loading |-> Put(cat.loading, ProviderOrder[i], TRUE),
             error |-> Put(cat.error, ProviderOrder[i], NULL),
             fetches |-> Append(cat.fetches, [p |-> ProviderOrder[i]])],
            F, i + 1)

Catalog == [loading |-> isLoadingModels, error |-> modelLoadError, fetches |-> fetches]

\* ------------------------------------------------------- watcher turns
\* how the promise of one updateConfigurationStatus call stands at the end of
\* the turn that started it
RunKind(conf, creds) ==
    IF PromiseAll(KindsAfterRun(conf, creds)) = "rejected" THEN "rejected"
    ELSE IF DOMAIN NewRun(creds) # {} THEN "pending"
    ELSE "resolved"

\* One turn of the two watchers of providerCredentials, with the
\* continuations that need no network: st is the store before the turn,
\* newCreds the credentials the watchers see. sameObject: the store object
\* was mutated in place, so the watcher's oldCreds is newCreds itself;
\* otherwise the ref was given a new object and oldCreds is the previous one.
WatcherTurn(st, newCreds, sameObject) ==
    [creds |-> newCreds,
     conf |-> ConfiguredAfterRun(st.conf, newCreds),
     runs |-> RunsAfter(st.runs, newCreds),
     cat |-> StartFetches(st.cat,
                ToRefetch(newCreds, IF sameObject THEN newCreds ELSE st.creds, st.conf),
                1),
     run |-> RunKind(st.conf, newCreds)]

Store ==
    [creds |-> providerCredentials, conf |-> configuredProviders, runs |-> runs,
     cat |-> Catalog, run |-> "none"]

\* op: the handler; id: its provider; kind: how its promise stands;
\* value, returned, error: what it resolved with or threw; response: the
\* probe's answer; url, late: the probe's entry, see NewRun; started: the
\* providers the refetch watcher called fetchModelsForProvider for;
\* previous: the cache entry a completed fetch found; called: createProvider
\* was called; instance, metadata: what getProviderInstance and
\* getProviderMetadata returned; edited: the credentials were written since
\* the store was created; config: the argument of a validateProviderConfig
\* hook called on its own; older: how many fetches of the same provider,
\* started before the fetch that completed, were still pending
NoEvent ==
    [op |-> "none", id |-> "", kind |-> "none", value |-> FALSE,
     returned |-> <<>>, error |-> "", response |-> "", url |-> "",
     late |-> FALSE, started |-> {}, previous |-> <<>>, called |-> FALSE,
     instance |-> EmptyObject, metadata |-> EmptyObject, edited |-> FALSE,
     config |-> EmptyObject, older |-> 0]

\* updateConfigurationStatus() was called by the watcher; kind: how its
\* promise stands at the end of the turn
UpdateEvent(kind) == [NoEvent EXCEPT !.op = "update", !.kind = kind]

\* the store takes the values of st; the cached model lists stay
Commit(st, ev) ==
    /\ Len(st.runs) <= MaxRuns
    /\ Len(st.cat.fetches) <= MaxFetches
    /\ providerCredentials' = st.creds
    /\ configuredProviders' = st.conf
    /\ runs' = st.runs
    /\ isLoadingModels' = st.cat.loading
    /\ modelLoadError' = st.cat.error
    /\ fetches' = st.cat.fetches
    /\ event' = [ev EXCEPT !.edited = TRUE, !.started =
                    {st.cat.fetches[i].p : i \in (Len(fetches) + 1)..Len(st.cat.fetches)}]
    /\ UNCHANGED <<availableModels, form, availability>>

\* ------------------------------------------------- settings form writes
\* the values typed into the fields of the forms
XaiApiKeys == {"", "xai-key", "xai-key-2"}
XaiBaseUrls == {"", OtherUrl}
OllamaBaseUrls == {"", RelativeUrl, OllamaDefaultBaseUrl, OtherUrl}

FieldInputs(p, k) ==
    IF p = "ollama" THEN OllamaBaseUrls
    ELSE IF k = "apiKey" THEN XaiApiKeys ELSE XaiBaseUrls

\* providers.value[providerId], or {} where the setter creates it
ConfigOf(creds, p) == IF Has(creds, p) THEN creds[p] ELSE EmptyObject

\* the mutant of SetField: the entry is replaced by an object that holds the
\* edited field only
SetFieldReplacing(creds, p, k, v) == Put(creds, p, Put(EmptyObject, k, v))

\* the setter of the computed apiKey / baseUrl
SetField(creds, p, k, v) == Put(creds, p, Put(ConfigOf(creds, p), k, v))

\* the getter of the xai form's computed apiKey / baseUrl
xaiField(creds, k) == OrEmpty(ConfigOf(creds, "xai"), k)

\* the getter of the ollama form's computed baseUrl
ollamaBaseUrl(creds) ==
    IF Truthy(ConfigOf(creds, "ollama"), "baseUrl") THEN creds["ollama"]["baseUrl"]
    ELSE OrEmpty(defaultOptions("ollama"), "baseUrl")

\* watch([apiKey, baseUrl]) of the xai form: the write back of both fields
xaiWatchWrite(creds) ==
    Put(creds, "xai",
        Put(Put(ConfigOf(creds, "xai"), "apiKey", xaiField(creds, "apiKey")),
            "baseUrl", xaiField(creds, "baseUrl")))

\* the xai form's watcher runs: one of its two computed fields changed
xaiFieldsChanged(before, after) ==
    \/ xaiField(before, "apiKey") # xaiField(after, "apiKey")
    \/ xaiField(before, "baseUrl") # xaiField(after, "baseUrl")

\* the mutant of ResetConfig: the defaults are called and spread
ResetConfigCalled(p) == defaultOptions(p)

\* { ...(providerMetadata.value?.defaultOptions as any) }: the spread of the
\* function defaultOptions itself, which has no own enumerable property
ResetConfig(p) == EmptyObject

\* the mutant of ResetWrite: the entry is deleted
ResetDelete(creds, p) == [x \in (DOMAIN creds) \ {p} |-> creds[x]]

\* providers.value[providerId] = { ... } of handleResetSettings
ResetWrite(creds, p) == Put(creds, p, ResetConfig(p))

\* the store after the turns that follow a write of the xai form: the store
\* watchers, then the form's watcher and the store watchers again
XaiTurns(st, written) ==
    IF xaiFieldsChanged(st.creds, written)
    THEN WatcherTurn(WatcherTurn(st, written, TRUE), xaiWatchWrite(written), TRUE)
    ELSE WatcherTurn(st, written, TRUE)

\* ------------------------------------------------- settings form state
\* const debounceTime = 500
debounceTime == 500

\* the step of the clock: timers and elapsed times are multiples of it
TickMs == debounceTime \div 2

\* no timer is armed
NoTimer == -1

\* a value of white space only, and String.prototype.trim on the values of
\* this model
Blank == " "
Trim(s) == IF s = Blank THEN "" ELSE s

\* the values typed into the fields of the mounted form
FormInputs(id, k) ==
    IF id = "ollama" THEN {"", Blank, OtherUrl}
    ELSE IF k = "apiKey" THEN {"", Blank, "xai-key", "xai-key-2"}
    ELSE {"", OtherUrl}

\* the fields of the form of provider id, and the one its debounced handler
\* requires
FormFieldNames(id) == IF id = "xai" THEN {"apiKey", "baseUrl"} ELSE {"baseUrl"}
RequiredField(id) == IF id = "xai" THEN "apiKey" ELSE "baseUrl"

\* the values of the form's computed fields
FormFields(id, creds) ==
    IF id = "xai"
    THEN [apiKey |-> xaiField(creds, "apiKey"), baseUrl |-> xaiField(creds, "baseUrl")]
    ELSE [baseUrl |-> ollamaBaseUrl(creds)]

\* const config = { ... } of validateConfiguration: the trimmed fields; the
\* ollama form adds the headers of its rows, none here
TrimmedConfig(id, creds) ==
    IF id = "xai"
    THEN [apiKey |-> Trim(xaiField(creds, "apiKey")),
          baseUrl |-> Trim(xaiField(creds, "baseUrl"))]
    ELSE [baseUrl |-> Trim(ollamaBaseUrl(creds)), headers |-> "{}"]

\* the mutant of remainingTime: no floor, the callback is due at once
remainingTimeNoFloor(elapsed) == 0

\* Math.max(0, debounceTime - (performance.now() - startValidationTimestamp))
remainingTime(elapsed) ==
    IF debounceTime - elapsed > 0 THEN debounceTime - elapsed ELSE 0

\* no form is mounted
NoForm ==
    [id |-> "", isValidating |-> 0, isValid |-> FALSE, validationMessage |-> "",
     calls |-> <<>>, debounce |-> NoTimer, watched |-> EmptyObject,
     since |-> 0, burst |-> FALSE, op |-> "none", started |-> 0,
     validated |-> EmptyObject, held |-> 0]

\* a handler of the form begins: op names it, started counts the
\* validateConfiguration calls it makes, validated is their config and held
\* the time from the start of a call to the run of its setTimeout callback
FormOp(f, name) ==
    [f EXCEPT !.op = name, !.started = 0, !.validated = EmptyObject, !.held = 0]

\* validateConfiguration() up to its first suspension. A call is
\*   phase "hook":  awaiting validateProviderConfig, t the time elapsed
\*                  since startValidationTimestamp (no more than debounceTime
\*                  is told apart), config what it validates;
\*   phase "timer": its setTimeout is pending, t the time left, msg its
\*                  finalValidationMessage.
\* age is the time since the call started: while the hook is awaited it is
\* told apart up to debounceTime, as t is.
\* A hook that issues no probe settles within the turn.
validateConfiguration(f, creds) ==
    LET config == TrimmedConfig(f.id, creds)
        validationResult == validateProviderConfig(f.id, config, NoResponse)
        begun == [f EXCEPT !.isValidating = @ + 1, !.validationMessage = "",
                           !.started = @ + 1, !.validated = config]
    IN  IF NeedsProbe(f.id, config)
        THEN [begun EXCEPT !.calls = Append(@,
                [phase |-> "hook", t |-> 0, age |-> 0, config |-> config,
                 msg |-> ""])]
        ELSE [begun EXCEPT !.isValid = validationResult.valid,
                           !.calls = Append(@,
                [phase |-> "timer", t |-> remainingTime(0), age |-> 0,
                 config |-> EmptyObject,
                 msg |-> IF validationResult.valid THEN ""
                         ELSE validationResult.reason])]

\* the mutant of ClearValidation: the counter of running validations is kept
ClearValidationKeepingCount(f) ==
    [f EXCEPT !.isValid = FALSE, !.validationMessage = ""]

\* the branch of the debounced handler for an empty required field, and the
\* tail of handleResetSettings
ClearValidation(f) ==
    [f EXCEPT !.isValid = FALSE, !.validationMessage = "", !.isValidating = 0]

\* the mutant of debouncedValidateConfiguration: the required field is
\* tested as typed, not trimmed
debouncedValidateConfigurationUntrimmed(f, creds) ==
    IF FormFields(f.id, creds)[RequiredField(f.id)] = ""
    THEN ClearValidation(f)
    ELSE validateConfiguration(f, creds)

\* the body given to useDebounceFn
debouncedValidateConfiguration(f, creds) ==
    IF Trim(FormFields(f.id, creds)[RequiredField(f.id)]) = ""
    THEN ClearValidation(f)
    ELSE validateConfiguration(f, creds)

\* the mutant of DebounceArm: a pending timer is kept, not restarted
DebounceArmOnce(timer) == IF timer # NoTimer THEN timer ELSE debounceTime

\* useDebounceFn(fn, debounceTime): each invocation restarts the timer
DebounceArm(timer) == debounceTime

\* the debounced function is invoked: since is the time from the last
\* invocation to now or, once the handler has run, to its run; burst tells
\* that the timer was pending
debouncedInvoke(f) ==
    [f EXCEPT !.debounce = DebounceArm(@), !.since = 0,
              !.burst = (f.debounce # NoTimer)]

\* the credentials after onMounted of the form of provider id
Mounted(id, creds) ==
    IF id = "xai" THEN xaiWatchWrite(initializeProvider(creds, "xai"))
    ELSE LET ready == initializeProvider(creds, "ollama")
         IN  SetField(SetField(ready, "ollama", "headers", "{}"),
                      "ollama", "baseUrl", ollamaBaseUrl(ready))

\* the form of provider id after setup and onMounted: the ollama form's
\* immediate watcher of headers has invoked the debounced function, and
\* validateConfiguration is called when the required field is not blank
MountedForm(id, creds) ==
    LET fresh == [NoForm EXCEPT !.id = id, !.op = "mount",
                                !.watched = FormFields(id, creds)]
        setup == IF id = "ollama" THEN debouncedInvoke(fresh) ELSE fresh
    IN  IF Trim(FormFields(id, creds)[RequiredField(id)]) # ""
        THEN validateConfiguration(setup, creds)
        ELSE setup

\* ---------------------------------------------------- availability filter
\* The rows of providerMetadata the filter is followed on, in the order of
\* Object.values: two rows with an isAvailableBy predicate and two without.
AvailabilityOrder ==
    <<"app-local-audio-speech", "browser-local-audio-speech", "ollama", "xai">>

Descriptors == {AvailabilityOrder[i] : i \in 1..Len(AvailabilityOrder)}

\* metadata.category
Category(d) == IF d \in {"ollama", "xai"} THEN "chat" ELSE "speech"

\* metadata.isAvailableBy is defined
HasIsAvailableBy(d) == d \in {"app-local-audio-speech", "browser-local-audio-speech"}

\* the predicate awaits isWebGPUSupported(): its promise settles in a later
\* turn, or never; the predicate of app-local-audio-speech only reads
\* globalThis.window.__TAURI__
AwaitsEnvironment(d) == d = "browser-local-audio-speech"

\* what an awaited predicate can settle with
PredicateAnswers == {"true", "false", "rejects"}

\* the mutant of PushIfAvailable: the descriptor is pushed whatever the answer
PushAlways(providers, d, answer) == Append(providers, d)

\* if (isAvailable) providers.push(provider)
PushIfAvailable(providers, d, answer) ==
    IF answer = "false" THEN providers ELSE Append(providers, d)

\* (p.isAvailableBy || (() => true))() of a descriptor that settles within
\* the turn; tauri: globalThis.window.__TAURI__ is there
PromptAnswer(d, tauri) ==
    IF ~HasIsAvailableBy(d) THEN "absent"
    ELSE IF tauri THEN "true" ELSE "false"

\* One run of the callback of computedAsync from the i-th descriptor on, up
\* to an await that does not settle within the turn or to its return.
\* at: the descriptor whose predicate is awaited (0: returned); providers:
\* the local list; seen: the answers of the predicates called so far
RECURSIVE RunEvaluation(_, _, _)
RunEvaluation(ev, i, tauri) ==
    IF i > Len(AvailabilityOrder) THEN [ev EXCEPT !.at = 0]
    ELSE LET d == AvailabilityOrder[i]
         IN  IF AwaitsEnvironment(d) THEN [ev EXCEPT !.at = i]
             ELSE RunEvaluation(
                    [ev EXCEPT
                        !.providers = PushIfAvailable(@, d, PromptAnswer(d, tauri)),
                        !.seen = Put(@, d, PromptAnswer(d, tauri))],
                    i + 1, tauri)

\* no evaluation has run: computedAsync(..., []) holds its initial value
NoAvailability ==
    [tauri |-> FALSE, value |-> <<>>, evaluations |-> <<>>,
     ended |-> "none", last |-> EmptyObject, op |-> "none", answer |-> ""]

\* an evaluation that returned: its list becomes the value when no later
\* evaluation was started meanwhile (counterAtBeginning === counter)
Finish(a, ev) ==
    IF ev.current
    THEN [a EXCEPT !.value = ev.providers, !.ended = "resolved", !.last = ev.seen]
    ELSE a

\* the effect of computedAsync runs (at creation, and when
\* allProvidersMetadata changed): the evaluations in flight are outdated and
\* a new one is started
StartEvaluation(a) ==
    LET outdated == [k \in 1..Len(a.evaluations) |->
                        [a.evaluations[k] EXCEPT !.current = FALSE]]
        ev == RunEvaluation(
                [current |-> TRUE, at |-> 1, providers |-> <<>>, seen |-> EmptyObject],
                1, a.tauri)
        begun == [a EXCEPT !.evaluations = outdated, !.ended = "pending",
                           !.last = EmptyObject, !.op = "start", !.answer = ""]
    IN  IF ev.at = 0 THEN Finish(begun, ev)
        ELSE [begun EXCEPT !.evaluations = Append(@, ev)]

\* the views by category: all*ProvidersMetadata and configured*ProvidersMetadata
AllOfCategory(value, category) ==
    {value[i] : i \in {j \in 1..Len(value) : Category(value[j]) = category}}

\* the mutant of ConfiguredOfCategory: the whole table is filtered, not the
\* available list
ConfiguredOfTable(value, category, conf) ==
    {d \in Descriptors : Category(d) = category /\ IsTrue(conf, d)}

ConfiguredOfCategory(value, category, conf) ==
    {d \in AllOfCategory(value, category) : IsTrue(conf, d)}

\* ------------------------------------------------------ provider factory
\* metadata.createProvider(config) of xai and ollama: the fields are read as
\* strings and trimmed, so a missing field is a TypeError; the instance is
\* what the vendor factory was given
createProvider(p, config) ==
    LET needed == IF p = "xai" THEN {"apiKey", "baseUrl"} ELSE {"baseUrl"}
    IN  IF needed \subseteq DOMAIN config
        THEN [threw |-> FALSE, error |-> "",
              instance |-> [k \in needed \cup {"provider"} |->
                                IF k = "provider" THEN p ELSE Trim(config[k])]]
        ELSE [threw |-> TRUE,
              error |-> "TypeError: Cannot read properties of undefined (reading 'trim')",
              instance |-> EmptyObject]

\* what the promise of getProviderInstance settles with; called: whether
\* createProvider was called
InstanceOutcome(kind, instance, error, called) ==
    [kind |-> kind, instance |-> instance, error |-> error, called |-> called]

\* the mutant of getProviderInstance: the catch block returns nothing
getProviderInstanceSwallowing(id, creds) ==
    IF ~Has(creds, id)
    THEN InstanceOutcome("rejected", EmptyObject,
            "Provider credentials for " \o id \o " not found", FALSE)
    ELSE IF id \notin Providers
    THEN InstanceOutcome("rejected", EmptyObject,
            "Provider metadata for " \o id \o " not found", FALSE)
    ELSE InstanceOutcome("resolved", createProvider(id, creds[id]).instance, "", TRUE)

\* getProviderInstance(providerId)
getProviderInstance(id, creds) ==
    IF ~Has(creds, id)
    THEN InstanceOutcome("rejected", EmptyObject,
            "Provider credentials for " \o id \o " not found", FALSE)
    ELSE IF id \notin Providers
    THEN InstanceOutcome("rejected", EmptyObject,
            "Provider metadata for " \o id \o " not found", FALSE)
    ELSE LET made == createProvider(id, creds[id])
         IN  IF made.threw
             THEN InstanceOutcome("rejected", EmptyObject, made.error, TRUE)
             ELSE InstanceOutcome("resolved", made.instance, "", TRUE)

\* ---------------------------------------------------- localized metadata
\* providerMetadata[p]: the fields of the rows of xai and ollama that
\* getProviderMetadata reads or copies
Metadata(p) ==
    IF p = "xai"
    THEN [id |-> "xai", category |-> "chat",
          nameKey |-> "settings.pages.providers.provider.xai.title",
          name |-> "xAI",
          descriptionKey |-> "settings.pages.providers.provider.xai.description",
          description |-> "x.ai"]
    ELSE [id |-> "ollama", category |-> "chat",
          nameKey |-> "settings.pages.providers.provider.ollama.title",
          name |-> "Ollama",
          descriptionKey |-> "settings.pages.providers.provider.ollama.description",
          description |-> "ollama.com"]

\* the locales of this model: one that translates the keys, one that does not
Locales == {"en", "zz"}

\* t(key, defaultMessage) of vue-i18n
Localize(key, defaultMessage, locale) ==
    IF locale = "en" THEN key \o "@en" ELSE defaultMessage

\* the mutant of getProviderMetadata: an unknown id gives an empty descriptor
getProviderMetadataOrEmpty(id, locale) ==
    IF id \notin Providers
    THEN [threw |-> FALSE, error |-> "", metadata |-> EmptyObject]
    ELSE [threw |-> FALSE, error |-> "",
          metadata |-> Put(Put(Metadata(id), "localizedName", Metadata(id).name),
                           "localizedDescription", Metadata(id).description)]

\* getProviderMetadata(providerId)
getProviderMetadata(id, locale) ==
    IF id \notin Providers
    THEN [threw |-> TRUE, error |-> "Provider metadata for " \o id \o " not found",
          metadata |-> EmptyObject]
    ELSE [threw |-> FALSE, error |-> "",
          metadata |->
            Put(Put(Metadata(id), "localizedName",
                    Localize(Metadata(id).nameKey, Metadata(id).name, locale)),
                "localizedDescription",
                Localize(Metadata(id).descriptionKey, Metadata(id).description, locale))]

\* ------------------------------------------------------------ store init
\* what the durable store can hold when the process starts: nothing, or a
\* saved xai configuration
PersistedStores ==
    {EmptyObject, [xai |-> [apiKey |-> "xai-key", baseUrl |-> OtherUrl]]}

\* useProvidersStore setup: the entries are initialized, then the immediate
\* watcher calls updateConfigurationStatus
Init ==
    \E persisted \in PersistedStores :
        /\ providerCredentials = InitializeAll(persisted)
        /\ configuredProviders = ConfiguredAfterRun(EmptyObject, InitializeAll(persisted))
        /\ runs = RunsAfter(<<>>, InitializeAll(persisted))
        /\ availableModels = EmptyObject
        /\ isLoadingModels = EmptyObject
        /\ modelLoadError = EmptyObject
        /\ fetches = <<>>
        /\ form = NoForm
        /\ availability = NoAvailability
        /\ event = UpdateEvent(RunKind(EmptyObject, InitializeAll(persisted)))

\* ---------------------------------------------------------- form actions
\* xai form: the user types v into the field k (apiKey or baseUrl)
XaiEdit(k, v) ==
    /\ SetField(providerCredentials, "xai", k, v) # providerCredentials
    /\ LET st == XaiTurns(Store, SetField(providerCredentials, "xai", k, v))
       IN  Commit(st, UpdateEvent(st.run))

\* xai form, onMounted: both fields are written with their own values
XaiMount ==
    LET written == xaiWatchWrite(initializeProvider(providerCredentials, "xai"))
    IN  /\ written # providerCredentials
        /\ LET st == XaiTurns(Store, written)
           IN  Commit(st, UpdateEvent(st.run))

\* xai form: handleResetSettings
XaiReset ==
    LET st == XaiTurns(Store, ResetWrite(providerCredentials, "xai"))
    IN  Commit(st, UpdateEvent(st.run))

\* ollama form: the user types v into the baseUrl field
OllamaEdit(v) ==
    /\ SetField(providerCredentials, "ollama", "baseUrl", v) # providerCredentials
    /\ LET st == WatcherTurn(Store,
                    SetField(providerCredentials, "ollama", "baseUrl", v), TRUE)
       IN  Commit(st, UpdateEvent(st.run))

\* ollama form, setup and onMounted: headers is written by the immediate
\* watcher of headers, baseUrl is written with the value of its getter
OllamaMount ==
    LET ready == initializeProvider(providerCredentials, "ollama")
        written == SetField(SetField(ready, "ollama", "headers", "{}"),
                            "ollama", "baseUrl", ollamaBaseUrl(ready))
        st == WatcherTurn(Store, written, TRUE)
    IN  Commit(st, UpdateEvent(st.run))

\* ollama form: handleResetSettings
OllamaReset ==
    LET st == WatcherTurn(Store, ResetWrite(providerCredentials, "ollama"), TRUE)
    IN  Commit(st, UpdateEvent(st.run))

\* the configs another window can write for provider p
SyncConfigs(p) ==
    IF p = "ollama" THEN {[baseUrl |-> b] : b \in OllamaBaseUrls}
    ELSE {[apiKey |-> a, baseUrl |-> b] : a \in XaiApiKeys, b \in XaiBaseUrls}

\* useLocalStorage: another window wrote the key with a new config of p; the
\* ref gets the parsed object, a new one
StorageSync(p, config) ==
    /\ Put(providerCredentials, p, config) # providerCredentials
    /\ LET st == WatcherTurn(Store, Put(providerCredentials, p, config), FALSE)
       IN  Commit(st, UpdateEvent(st.run))

\* ------------------------------------------------------- store actions
\* f without its key k
Without(f, k) == [x \in (DOMAIN f) \ {k} |-> f[x]]

\* the mutant of ProbeWrite: a request-generation guard drops a stale result
ProbeWriteFenced(conf, p, status, late) ==
    IF late THEN conf ELSE Put(conf, p, status)

\* configuredProviders.value[providerId] = ... after the awaited validation
ProbeWrite(conf, p, status, late) == Put(conf, p, status)

\* the probe of the i-th pending updateConfigurationStatus call for provider
\* p is answered: validateProvider settles and the callback writes the status
ProbeResolve(i, p, response) ==
    /\ i \in 1..Len(runs)
    /\ p \in DOMAIN runs[i]
    /\ LET snapshot == Put(EmptyObject, p, [baseUrl |-> runs[i][p].url])
           outcome == validateProvider(p, snapshot, response)
           step == StatusOf(outcome, Previous(configuredProviders, p))
           rest == Without(runs[i], p)
           newer == [j \in 1..Len(runs) |->
                        IF j < i /\ p \in DOMAIN runs[j]
                        THEN [runs[j] EXCEPT ![p].late = TRUE] ELSE runs[j]]
       IN  /\ configuredProviders' =
                ProbeWrite(configuredProviders, p, step.status, runs[i][p].late)
           /\ runs' = IF DOMAIN rest = {} THEN RemoveAt(newer, i)
                      ELSE [newer EXCEPT ![i] = rest]
           /\ event' = [NoEvent EXCEPT !.edited = event.edited, !.op = "probe", !.id = p,
                            !.kind = IF step.kind = "rejected" THEN "rejected"
                                     ELSE IF DOMAIN rest = {} THEN "resolved"
                                     ELSE "pending",
                            !.value = validateProviderConfig(p, snapshot[p], response).valid,
                            !.error = outcome.error,
                            !.response = response,
                            !.url = runs[i][p].url,
                            !.late = runs[i][p].late]
    /\ UNCHANGED <<availability, form, providerCredentials, availableModels, isLoadingModels,
                   modelLoadError, fetches>>

\* a caller of the store calls initializeProvider(id), id a key of
\* providerMetadata; a new entry is seen by the watchers of the credentials
InitializeProviderCall(id) ==
    LET written == initializeProvider(providerCredentials, id)
        ev(kind) == [NoEvent EXCEPT !.op = "initialize", !.id = id, !.kind = kind,
                                    !.value = ~Has(providerCredentials, id)]
    IN  IF written = providerCredentials
        THEN /\ event' = [ev("returned") EXCEPT !.edited = event.edited]
             /\ UNCHANGED <<availability, form, providerCredentials, configuredProviders,
                            runs, availableModels, isLoadingModels, modelLoadError,
                            fetches>>
        ELSE LET st == WatcherTurn(Store, written, TRUE)
             IN  Commit(st, ev("returned"))

\* a caller of the store calls getProviderInstance(id) and awaits it
GetProviderInstanceCall(id) ==
    /\ LET outcome == getProviderInstance(id, providerCredentials)
       IN  event' = [NoEvent EXCEPT !.edited = event.edited, !.op = "instance",
                        !.id = id, !.kind = outcome.kind, !.error = outcome.error,
                        !.instance = outcome.instance, !.called = outcome.called]
    /\ UNCHANGED <<availability, form, providerCredentials, configuredProviders, runs,
                   availableModels, isLoadingModels, modelLoadError, fetches>>

\* a caller of the store calls getProviderMetadata(id) under a locale
GetProviderMetadataCall(id, locale) ==
    /\ LET got == getProviderMetadata(id, locale)
       IN  event' = [NoEvent EXCEPT !.edited = event.edited, !.op = "metadata",
                        !.id = id, !.kind = IF got.threw THEN "threw" ELSE "returned",
                        !.error = got.error, !.metadata = got.metadata,
                        !.response = locale]
    /\ UNCHANGED <<availability, form, providerCredentials, configuredProviders, runs,
                   availableModels, isLoadingModels, modelLoadError, fetches>>

\* a caller of the store calls validateProvider(id) and awaits it
ValidateProviderCall(id, response) ==
    /\ LET outcome == validateProvider(id, providerCredentials, response)
       IN  event' = [NoEvent EXCEPT !.edited = event.edited, !.op = "validate", !.id = id,
                        !.kind = outcome.kind, !.value = outcome.value,
                        !.error = outcome.error, !.response = response]
    /\ UNCHANGED <<availability, form, providerCredentials, configuredProviders, runs, availableModels,
                   isLoadingModels, modelLoadError, fetches>>

\* a caller calls the validateProviderConfig hook of openai-compatible with
\* config
ValidateProviderConfigCall(config) ==
    /\ LET validationResult == openaiCompatibleValidateProviderConfig(config)
       IN  event' = [NoEvent EXCEPT !.edited = event.edited, !.op = "hook",
                        !.id = "openai-compatible", !.kind = "returned",
                        !.value = validationResult.valid,
                        !.error = validationResult.reason,
                        !.config = config]
    /\ UNCHANGED <<availability, form, providerCredentials, configuredProviders, runs,
                   availableModels, isLoadingModels, modelLoadError, fetches>>

\* the mutant of FetchFinally: the flag is left as it is
FetchFinallySkipped(loading, p) == loading

\* finally { isLoadingModels.value[providerId] = false }
FetchFinally(loading, p) == Put(loading, p, FALSE)

\* a caller of the store calls fetchModelsForProvider(id)
FetchModelsCall(id) ==
    IF ~Has(providerCredentials, id) \/ ~HasMetadata(id)
    THEN /\ event' = [NoEvent EXCEPT !.edited = event.edited, !.op = "fetch", !.id = id, !.kind = "resolved"]
         /\ UNCHANGED <<availability, form, providerCredentials, configuredProviders, runs,
                        availableModels, isLoadingModels, modelLoadError, fetches>>
    ELSE IF HasListModels(id)
    THEN /\ Len(fetches) < MaxFetches
         /\ LET cat == StartFetches(Catalog, {id}, 1)
            IN  /\ isLoadingModels' = cat.loading
                /\ modelLoadError' = cat.error
                /\ fetches' = cat.fetches
         /\ event' = [NoEvent EXCEPT !.edited = event.edited, !.op = "fetch", !.id = id, !.kind = "pending"]
         /\ UNCHANGED <<availability, form, providerCredentials, configuredProviders, runs, availableModels>>
    ELSE /\ availableModels' = Put(availableModels, id, <<>>)
         /\ isLoadingModels' = FetchFinally(isLoadingModels, id)
         /\ modelLoadError' = Put(modelLoadError, id, NULL)
         /\ event' = [NoEvent EXCEPT !.edited = event.edited, !.op = "fetch", !.id = id, !.kind = "resolved"]
         /\ UNCHANGED <<availability, form, providerCredentials, configuredProviders, runs, fetches>>

\* the mutant of FetchCatch: the cache entry is cleared on failure
FetchCatchClearing(models, errors, p, thrown) ==
    [models |-> Put(models, p, <<>>),
     errors |-> Put(errors, p, ErrorMessage(thrown)),
     kind |-> "resolved", returned |-> <<>>]

\* the catch block of fetchModelsForProvider
FetchCatch(models, errors, p, thrown) ==
    [models |-> models,
     errors |-> Put(errors, p, ErrorMessage(thrown)),
     kind |-> "resolved", returned |-> <<>>]

\* listModels of the i-th pending fetch resolves with the vendor's list
FetchSucceed(i, list) ==
    /\ i \in 1..Len(fetches)
    /\ LET p == fetches[i].p
       IN  /\ availableModels' = Put(availableModels, p, TagModels(list, p))
           /\ isLoadingModels' = FetchFinally(isLoadingModels, p)
           /\ event' = [NoEvent EXCEPT !.edited = event.edited, !.op = "fetched",
                            !.id = p, !.kind = "resolved",
                            !.returned = TagModels(list, p),
                            !.previous = getModelsForProvider(p),
                            !.older = Cardinality({j \in FetchesOf(fetches, p) : j < i})]
    /\ fetches' = RemoveAt(fetches, i)
    /\ UNCHANGED <<availability, form, providerCredentials, configuredProviders, runs, modelLoadError>>

\* listModels of the i-th pending fetch rejects
FetchFail(i, thrown) ==
    /\ i \in 1..Len(fetches)
    /\ LET p == fetches[i].p
           caught == FetchCatch(availableModels, modelLoadError, p, thrown)
       IN  /\ availableModels' = caught.models
           /\ modelLoadError' = caught.errors
           /\ isLoadingModels' = FetchFinally(isLoadingModels, p)
           /\ event' = [NoEvent EXCEPT !.edited = event.edited, !.op = "fetchFailed", !.id = p,
                            !.kind = caught.kind, !.returned = caught.returned,
                            !.error = ErrorMessage(thrown)]
    /\ fetches' = RemoveAt(fetches, i)
    /\ UNCHANGED <<availability, form, providerCredentials, configuredProviders, runs>>

\* -------------------------------------------------- settings form steps
\* The store's watchers of providerCredentials are the subject of Spec and
\* CatalogSpec; the steps of the form leave the store's other state alone.
StoreIdle ==
    UNCHANGED <<configuredProviders, runs, availableModels, isLoadingModels,
                modelLoadError, fetches, event, availability>>

\* the form's watcher of its computed fields has no job queued
Settled == form.watched = FormFields(form.id, providerCredentials)

\* a timer is due: it fires before the clock advances
TimerDue ==
    \/ form.debounce = 0
    \/ \E i \in 1..Len(form.calls) :
            form.calls[i].phase = "timer" /\ form.calls[i].t = 0

\* the user types v into the field k of the form
FormEdit(k, v) ==
    /\ Settled
    /\ k \in FormFieldNames(form.id)
    /\ SetField(providerCredentials, form.id, k, v) # providerCredentials
    /\ providerCredentials' = SetField(providerCredentials, form.id, k, v)
    /\ form' = FormOp(form, "edit")
    /\ StoreIdle

\* the form's watcher runs because a computed field changed: the xai form
\* writes both fields back; both forms invoke the debounced function
FormWatch ==
    /\ ~Settled
    /\ providerCredentials' =
            IF form.id = "xai" THEN xaiWatchWrite(providerCredentials)
            ELSE providerCredentials
    /\ form' = [debouncedInvoke(FormOp(form, "watch")) EXCEPT
                    !.watched = FormFields(form.id, providerCredentials)]
    /\ StoreIdle

\* handleResetSettings
FormReset ==
    /\ Settled
    /\ providerCredentials' = ResetWrite(providerCredentials, form.id)
    /\ form' = ClearValidation(FormOp(form, "reset"))
    /\ StoreIdle

\* the debounce timer fires: the debounced handler runs
DebounceFire ==
    /\ Settled
    /\ form.debounce = 0
    /\ LET f == debouncedValidateConfiguration(
                    [FormOp(form, "debounce") EXCEPT !.debounce = NoTimer],
                    providerCredentials)
       IN  /\ Len(f.calls) <= MaxCalls
           /\ form' = f
    /\ UNCHANGED providerCredentials
    /\ StoreIdle

\* the probe of the i-th pending validateConfiguration call is answered: the
\* call resumes after its await and reaches its finally block
HookSettle(i, response) ==
    /\ Settled
    /\ i \in 1..Len(form.calls)
    /\ form.calls[i].phase = "hook"
    /\ LET call == form.calls[i]
           validationResult == validateProviderConfig(form.id, call.config, response)
       IN  form' = [FormOp(form, "settle") EXCEPT
                        !.isValid = validationResult.valid,
                        !.calls[i] = [phase |-> "timer", t |-> remainingTime(call.t),
                                      age |-> call.age, config |-> EmptyObject,
                                      msg |-> IF validationResult.valid THEN ""
                                              ELSE validationResult.reason]]
    /\ UNCHANGED providerCredentials
    /\ StoreIdle

\* the setTimeout callback of the i-th call runs
TimerFire(i) ==
    /\ Settled
    /\ i \in 1..Len(form.calls)
    /\ form.calls[i].phase = "timer"
    /\ form.calls[i].t = 0
    /\ form' = [FormOp(form, "timer") EXCEPT
                    !.isValidating = @ - 1,
                    !.validationMessage = form.calls[i].msg,
                    !.held = form.calls[i].age,
                    !.calls = RemoveAt(@, i)]
    /\ UNCHANGED providerCredentials
    /\ StoreIdle

\* TickMs pass: the timers come closer, the awaited calls grow older
Tick ==
    /\ Settled
    /\ ~TimerDue
    /\ LET older(call) ==
                IF call.phase = "timer"
                THEN [call EXCEPT !.t = @ - TickMs, !.age = @ + TickMs]
                ELSE [call EXCEPT !.t = IF @ + TickMs > debounceTime
                                        THEN debounceTime ELSE @ + TickMs,
                                  !.age = IF @ + TickMs > debounceTime
                                          THEN debounceTime ELSE @ + TickMs]
           f == [FormOp(form, "tick") EXCEPT
                    !.debounce = IF @ = NoTimer THEN NoTimer ELSE @ - TickMs,
                    !.since = IF form.debounce = NoTimer THEN @ ELSE @ + TickMs,
                    !.calls = [i \in 1..Len(form.calls) |-> older(form.calls[i])]]
       IN  /\ form.debounce # NoTimer \/ form.calls # <<>>
           /\ form' = f
    /\ UNCHANGED providerCredentials
    /\ StoreIdle

\* ---------------------------------------------- availability filter steps
\* updateConfigurationStatus writes configuredProviders[d]: allProvidersMetadata
\* reads it, so availableProvidersMetadata is evaluated again
ConfiguredWrite(d, b) ==
    /\ Put(configuredProviders, d, b) # configuredProviders
    /\ configuredProviders' = Put(configuredProviders, d, b)
    /\ Len(StartEvaluation(availability).evaluations) <= MaxEvaluations
    /\ availability' = StartEvaluation(availability)
    /\ UNCHANGED <<providerCredentials, runs, availableModels, isLoadingModels,
                   modelLoadError, fetches, event, form>>

\* the predicate awaited by the k-th evaluation in flight settles: a
\* rejection ends the callback at its await, an answer lets it go on
PredicateSettle(k, answer) ==
    /\ k \in 1..Len(availability.evaluations)
    /\ LET ev == availability.evaluations[k]
           d == AvailabilityOrder[ev.at]
           a == [availability EXCEPT !.op = "settle", !.answer = answer]
           resumed == RunEvaluation(
                        [ev EXCEPT !.providers = PushIfAvailable(@, d, answer),
                                   !.seen = Put(@, d, answer)],
                        ev.at + 1, availability.tauri)
       IN  availability' =
                IF answer = "rejects"
                THEN [a EXCEPT !.evaluations = RemoveAt(@, k),
                               !.ended = IF ev.current THEN "rejected" ELSE @,
                               !.last = IF ev.current THEN Put(ev.seen, d, answer)
                                        ELSE @]
                ELSE IF resumed.at = 0
                THEN Finish([a EXCEPT !.evaluations = RemoveAt(@, k)], resumed)
                ELSE [a EXCEPT !.evaluations[k] = resumed]
    /\ UNCHANGED <<providerCredentials, configuredProviders, runs, availableModels,
                   isLoadingModels, modelLoadError, fetches, event, form>>

\* ------------------------------------------------------ specifications
\* The configuration status: the forms write the credentials, the watchers
\* validate, the probes are answered.
Next ==
    \/ \E k \in {"apiKey", "baseUrl"} : \E v \in FieldInputs("xai", k) : XaiEdit(k, v)
    \/ XaiMount
    \/ XaiReset
    \/ \E v \in OllamaBaseUrls : OllamaEdit(v)
    \/ OllamaMount
    \/ OllamaReset
    \/ \E i \in 1..MaxRuns : \E p \in Providers : \E r \in Responses :
            ProbeResolve(i, p, r)

Spec == Init /\ [][Next]_vars

\* The settings forms of a store that holds a saved xai configuration with a
\* field the forms do not know: the fields of the forms are edited, the
\* ollama form is mounted, the probes are answered.
PersistedWithExtraField ==
    [xai |-> [apiKey |-> "xai-key", baseUrl |-> OtherUrl, organization |-> "org"]]

EditInit ==
    /\ providerCredentials = InitializeAll(PersistedWithExtraField)
    /\ configuredProviders =
            ConfiguredAfterRun(EmptyObject, InitializeAll(PersistedWithExtraField))
    /\ runs = RunsAfter(<<>>, InitializeAll(PersistedWithExtraField))
    /\ availableModels = EmptyObject
    /\ isLoadingModels = EmptyObject
    /\ modelLoadError = EmptyObject
    /\ fetches = <<>>
    /\ form = NoForm
    /\ availability = NoAvailability
    /\ event = UpdateEvent(RunKind(EmptyObject, InitializeAll(PersistedWithExtraField)))

EditNext ==
    \/ \E k \in {"apiKey", "baseUrl"} : \E v \in FieldInputs("xai", k) : XaiEdit(k, v)
    \/ \E v \in OllamaBaseUrls : OllamaEdit(v)
    \/ OllamaMount
    \/ \E i \in 1..MaxRuns : \E p \in Providers : \E r \in Responses :
            ProbeResolve(i, p, r)

EditSpec == EditInit /\ [][EditNext]_vars

\* The store's functions called on any stored credentials.
\* the saved entry of an id that is no longer a key of providerMetadata
LeftoverConfig == [baseUrl |-> OtherUrl]

ApiInit ==
    \E cx \in SyncConfigs("xai") \cup {EmptyObject} :
    \E co \in SyncConfigs("ollama") \cup {EmptyObject} :
    \E present \in SUBSET (Providers \cup {UnknownId, Player2Speech}) :
        /\ providerCredentials =
                [p \in present |-> IF p = "xai" THEN cx
                                  ELSE IF p = "ollama" THEN co
                                  ELSE IF p = Player2Speech
                                  THEN defaultOptions(Player2Speech)
                                  ELSE LeftoverConfig]
        /\ configuredProviders = EmptyObject
        /\ runs = <<>>
        /\ availableModels = EmptyObject
        /\ isLoadingModels = EmptyObject
        /\ modelLoadError = EmptyObject
        /\ fetches = <<>>
        /\ form = NoForm
        /\ availability = NoAvailability
        /\ event = NoEvent

ApiNext ==
    \/ \E id \in Providers \cup {UnknownId} : \E r \in Responses :
            ValidateProviderCall(id, r)
    \/ \E id \in Providers \cup {ElevenLabs} : InitializeProviderCall(id)
    \/ \E id \in Providers \cup {UnknownId} : GetProviderInstanceCall(id)
    \/ \E id \in Providers \cup {UnknownId} : \E locale \in Locales :
            GetProviderMetadataCall(id, locale)
    \/ \E config \in OpenAiCompatibleConfigs : ValidateProviderConfigCall(config)
    \/ FetchModelsCall(Player2Speech)

ApiSpec == ApiInit /\ [][ApiNext]_vars

\* The model catalog: credentials change in place (the xai form) or by a new
\* object (another window), fetches are started and answered.
\* ollama starts with a cleared baseUrl and is only given base URLs that
\* fail the presence checks, so that no probe is awaited here.
CatalogPersisted ==
    {[ollama |-> [baseUrl |-> ""]],
     [ollama |-> [baseUrl |-> ""], xai |-> [apiKey |-> "xai-key", baseUrl |-> OtherUrl]]}

CatalogInit ==
    \E persisted \in CatalogPersisted :
        /\ providerCredentials = InitializeAll(persisted)
        /\ configuredProviders = ConfiguredAfterRun(EmptyObject, InitializeAll(persisted))
        /\ runs = RunsAfter(<<>>, InitializeAll(persisted))
        /\ availableModels = EmptyObject
        /\ isLoadingModels = EmptyObject
        /\ modelLoadError = EmptyObject
        /\ fetches = <<>>
        /\ form = NoForm
        /\ availability = NoAvailability
        /\ event = UpdateEvent(RunKind(EmptyObject, InitializeAll(persisted)))

CatalogOllamaConfigs == {[baseUrl |-> b] : b \in {"", RelativeUrl}}

CatalogNext ==
    \/ \E k \in {"apiKey", "baseUrl"} : \E v \in FieldInputs("xai", k) : XaiEdit(k, v)
    \/ \E config \in SyncConfigs("xai") : StorageSync("xai", config)
    \/ \E config \in CatalogOllamaConfigs : StorageSync("ollama", config)
    \/ \E id \in Providers \cup {UnknownId} : FetchModelsCall(id)
    \/ \E i \in 1..MaxFetches : \E list \in VendorLists : FetchSucceed(i, list)
    \/ \E i \in 1..MaxFetches : \E thrown \in Thrown : FetchFail(i, thrown)

CatalogSpec == CatalogInit /\ [][CatalogNext]_vars

\* A settings form is mounted: the user edits its fields and resets it, its
\* timers fire and its probes are answered.
FormPersisted ==
    PersistedStores \cup {[ollama |-> [baseUrl |-> OtherUrl]]}

\* what the probe of the ollama form's validation is answered
FormResponses == {ResponseOk, "TypeError: Failed to fetch"}

FormInit ==
    \E id \in Providers : \E persisted \in FormPersisted :
        /\ providerCredentials = Mounted(id, InitializeAll(persisted))
        /\ configuredProviders = EmptyObject
        /\ runs = <<>>
        /\ availableModels = EmptyObject
        /\ isLoadingModels = EmptyObject
        /\ modelLoadError = EmptyObject
        /\ fetches = <<>>
        /\ event = NoEvent
        /\ form = MountedForm(id, Mounted(id, InitializeAll(persisted)))
        /\ availability = NoAvailability

FormNext ==
    \/ \E k \in {"apiKey", "baseUrl"} : \E v \in FormInputs(form.id, k) : FormEdit(k, v)
    \/ FormWatch
    \/ FormReset
    \/ DebounceFire
    \/ \E i \in 1..MaxCalls : \E r \in FormResponses : HookSettle(i, r)
    \/ \E i \in 1..MaxCalls : TimerFire(i)
    \/ Tick

FormSpec == FormInit /\ [][FormNext]_vars

\* The availability filter: the store is created, the configuration status
\* is written and the awaited predicates settle.
AvailabilityInit ==
    \E tauri \in BOOLEAN :
        /\ providerCredentials = EmptyObject
        /\ configuredProviders = EmptyObject
        /\ runs = <<>>
        /\ availableModels = EmptyObject
        /\ isLoadingModels = EmptyObject
        /\ modelLoadError = EmptyObject
        /\ fetches = <<>>
        /\ event = NoEvent
        /\ form = NoForm
        /\ availability = StartEvaluation([NoAvailability EXCEPT !.tauri = tauri])

AvailabilityNext ==
    \/ \E d \in Descriptors : \E b \in BOOLEAN : ConfiguredWrite(d, b)
    \/ \E k \in 1..MaxEvaluations : \E answer \in PredicateAnswers :
            PredicateSettle(k, answer)

AvailabilitySpec == AvailabilityInit /\ [][AvailabilityNext]_vars

HookValid(id, response) ==
    /\ Has(providerCredentials, id)
    /\ id \in Providers
    /\ validateProviderConfig(id, providerCredentials[id], response).valid

C3_FailureBecomesFalse ==
    /\ event.op \in {"update", "probe"} => event.kind # "rejected"
    /\ (event.op = "probe" /\ ~event.value) =>
            (Has(configuredProviders, event.id) /\ ~configuredProviders[event.id])
    /\ event.op = "update" =>
            \A p \in Providers :
                (~Probing(p, providerCredentials) /\ ~HookValid(p, NoResponse)) =>
                    (Has(configuredProviders, p) /\ ~configuredProviders[p])

\* C3 witness: a probe was answered with a failure, the call settled, and the
\* provider is not configured.
C3_Witness ==
    /\ event.op = "probe"
    /\ event.response # ResponseOk
    /\ event.kind = "resolved"
    /\ ~configuredProviders[event.id]

\* C4: the validation that resolves determines configured[p], also when a
\* validation of p that was started after it has already settled.
C4_LastResolvedWins ==
    event.op = "probe" =>
        (Has(configuredProviders, event.id)
            /\ configuredProviders[event.id] = event.value)

\* C4 witness: two probes of ollama were pending at once; the one started
\* last, with the config now stored, was answered first; the older one, which
\* read another baseUrl, was answered last and its result is the one stored.
C4_Witness ==
    /\ event.op = "probe"
    /\ event.id = "ollama"
    /\ event.late
    /\ runs = <<>>
    /\ Probing("ollama", providerCredentials)
    /\ providerCredentials["ollama"]["baseUrl"] # event.url
    /\ event.value
    /\ configuredProviders["ollama"]

\* obj[k] as a value that can be compared when the key is missing
Entry(obj, k) == IF Has(obj, k) THEN <<obj[k]>> ELSE <<>>

\* this step starts a fetchModelsForProvider call of p
FetchStarted(p) ==
    Cardinality(FetchesOf(fetches', p)) > Cardinality(FetchesOf(fetches, p))

\* this step changes the stored config of p
ConfigChanged(p) ==
    Stringify(providerCredentials', p) # Stringify(providerCredentials, p)

\* C7 as stated: a step in which a provider with listModels becomes
\* configured starts a fetch of its models.
C7_ConfiguredStartsFetch ==
    [][\A p \in Providers :
        (~IsTrue(configuredProviders, p) /\ IsTrue(configuredProviders', p)
            /\ HasListModels(p)) => FetchStarted(p)]_vars

\* C8 as stated: a step that changes the stored config of a provider that
\* is and stays configured and has listModels starts a fetch of its models.
C8_ChangeStartsFetch ==
    [][\A p \in Providers :
        (ConfigChanged(p) /\ IsTrue(configuredProviders, p)
            /\ IsTrue(configuredProviders', p) /\ HasListModels(p))
        => FetchStarted(p)]_vars

\* what the catalog holds for provider p
CatalogOf(p) ==
    <<Entry(isLoadingModels, p), Entry(modelLoadError, p), Entry(availableModels, p),
      Cardinality(FetchesOf(fetches, p))>>

\* C9: a step that changes the stored config of A and not that of B starts
\* no fetch of B and leaves isLoading[B], lastError[B] and the cached list
\* of B as they were.
C9_OtherProviderUntouched ==
    [][\A A \in Providers : \A B \in Providers \ {A} :
        (ConfigChanged(A) /\ ~ConfigChanged(B)) => CatalogOf(B)' = CatalogOf(B)]_vars

\* C9 witness: the config of xai was replaced and the watcher started a
\* fetch of xai while a fetch of ollama was pending.
C9_Witness ==
    /\ event.op = "update"
    /\ event.started = {"xai"}
    /\ FetchesOf(fetches, "ollama") # {}
    /\ IsTrue(isLoadingModels, "ollama")

\* C10: a fetch whose listModels fails resolves with the empty list, records
\* the message in lastError[p] and leaves the cached lists as they were;
\* every fetch of p that starts sets lastError[p] to null and its success
\* leaves lastError as it is.
C10_FailureKeepsCache ==
    [][/\ event'.op = "fetchFailed" =>
            /\ event'.kind = "resolved"
            /\ event'.returned = <<>>
            /\ Entry(modelLoadError', event'.id) = <<event'.error>>
            /\ availableModels' = availableModels
       /\ \A p \in Providers : FetchStarted(p) => Entry(modelLoadError', p) = <<NULL>>
       /\ event'.op = "fetched" => modelLoadError' = modelLoadError]_vars

\* C10 witness: a fetch of a provider with a cached list failed; the list is
\* still cached and the message is recorded.
C10_Witness ==
    /\ event.op = "fetchFailed"
    /\ Has(availableModels, event.id)
    /\ Len(availableModels[event.id]) > 0
    /\ modelLoadError[event.id] = "Failed to fetch"

\* C1 as stated: right after handleResetSettings of a provider whose
\* defaultOptions returns { baseUrl: X }, the stored config of the provider
\* is exactly { baseUrl: X }.
C1_ResetStoresDefaults ==
    (form.op = "reset" /\ HasDefaultOptions(form.id)) =>
        providerCredentials[form.id] = defaultOptions(form.id)

\* C5 as stated: whenever isValidating is 0, no validateConfiguration call
\* of the form is still awaiting its validateProviderConfig.
C5_IdleMeansNoPendingCall ==
    form.isValidating = 0 =>
        \A i \in 1..Len(form.calls) : form.calls[i].phase # "hook"

C11_LoadingReleased ==
    /\ event.op \in {"fetched", "fetchFailed"} =>
            /\ Has(isLoadingModels, event.id)
            /\ ~isLoadingModels[event.id]
    /\ \A p \in Providers :
            FetchesOf(fetches, p) = {} => ~IsTrue(isLoadingModels, p)

\* the last call of xai in flight has failed
C11_Witness ==
    /\ event.op = "fetchFailed"
    /\ event.id = "xai"
    /\ FetchesOf(fetches, "xai") = {}
    /\ Has(isLoadingModels, "xai")

\* C12: right after a successful fetch of p the cache entry of p is the
\* vendor's list, model by model and nothing else, each model with provider
\* = p; and in every state every cached model of p has provider = p.
C12_CacheReplacedAndTagged ==
    /\ event.op = "fetched" =>
            /\ availableModels[event.id] = event.returned
            /\ \E list \in VendorLists :
                    /\ Len(availableModels[event.id]) = Len(list)
                    /\ \A i \in 1..Len(list) :
                            availableModels[event.id][i] =
                                [id |-> list[i].id, provider |-> event.id]
    /\ \A p \in DOMAIN availableModels :
            \A i \in 1..Len(availableModels[p]) : availableModels[p][i].provider = p

\* a successful fetch of xai found two cached models and left the single
\* one the vendor returned
C12_Witness ==
    /\ event.op = "fetched"
    /\ event.id = "xai"
    /\ Len(event.previous) = 2
    /\ availableModels["xai"] = <<[id |-> "m1", provider |-> "xai"]>>

\* the descriptors in availableProvidersMetadata.value
Listed == {availability.value[i] : i \in 1..Len(availability.value)}

\* the descriptors shown by one of the six category views
InSomeView ==
    UNION {AllOfCategory(availability.value, c)
            \cup ConfiguredOfCategory(availability.value, c, configuredProviders) :
           c \in {"chat", "speech", "transcription"}}

\* C13 as stated: when a predicate has rejected in the latest evaluation,
\* every descriptor without a predicate, and every descriptor whose
\* predicate answered true, is still in the available list.
C13_RejectionOnlyHidesItsDescriptor ==
    availability.ended = "rejected" =>
        \A d \in Descriptors :
            (~HasIsAvailableBy(d) \/ (Has(availability.last, d)
                                        /\ availability.last[d] = "true"))
                => d \in Listed

\* C14 as stated: while an evaluation awaits the predicate of one
\* descriptor, the predicates of all the other descriptors have been called.
C14_PredicatesAwaitedIndependently ==
    \A k \in 1..Len(availability.evaluations) :
        \A d \in Descriptors \ {AvailabilityOrder[availability.evaluations[k].at]} :
            Has(availability.evaluations[k].seen, d)

\* C15: once the latest evaluation has returned, every descriptor without
\* isAvailableBy is in the available list, and a descriptor whose predicate
\* answered false is neither in the list nor in any category view, whatever
\* configuredProviders holds for it.
C15_AvailableAfterEvaluation ==
    availability.ended = "resolved" =>
        \A d \in Descriptors :
            /\ ~HasIsAvailableBy(d) => d \in Listed
            /\ (Has(availability.last, d) /\ availability.last[d] = "false")
                    => d \notin Listed \cup InSomeView

\* the evaluation returned after the predicate of a configured descriptor
\* answered false
C15_Witness ==
    /\ availability.ended = "resolved"
    /\ availability.op = "settle"
    /\ availability.last["browser-local-audio-speech"] = "false"
    /\ IsTrue(configuredProviders, "browser-local-audio-speech")
    /\ "ollama" \in Listed

\* C16: after initializeProvider(p) a second call changes nothing, and a
\* call for a provider of the table that has an entry leaves the whole
\* credential store as it is.
C16_InitializeIdempotent ==
    /\ event.op = "initialize" =>
            initializeProvider(providerCredentials, event.id) = providerCredentials
    /\ \A p \in Providers :
            Has(providerCredentials, p) =>
                initializeProvider(providerCredentials, p) = providerCredentials

\* initializeProvider has created the entry of ollama next to a saved entry
\* of xai
C16_Witness ==
    /\ event.op = "initialize"
    /\ event.id = "ollama"
    /\ event.value
    /\ providerCredentials["ollama"] = [baseUrl |-> OllamaDefaultBaseUrl]
    /\ Has(providerCredentials, "xai")
    /\ Truthy(providerCredentials["xai"], "apiKey")

\* validateProvider was called for an id without a stored config or
\* without a descriptor
ValidatedMissing ==
    /\ event.op = "validate"
    /\ ~Has(providerCredentials, event.id) \/ event.id \notin Providers

\* C17 as stated: validateProvider(id) rejects when id has no stored config
\* or no descriptor.
C17_MissingRejects == ValidatedMissing => event.kind = "rejected"

\* C17 amended: validateProvider(id) resolves with false, and throws
\* nothing, when id has no stored config or no descriptor.
C17_MissingResolvesFalse ==
    ValidatedMissing =>
        /\ event.kind = "resolved"
        /\ event.value = FALSE
        /\ event.error = ""

\* validateProvider was called for xai, which has no entry while ollama has
C17_Witness ==
    /\ ValidatedMissing
    /\ event.id = "xai"
    /\ Has(providerCredentials, "ollama")

\* getProviderInstance was called for an id without a stored config or
\* without a descriptor
InstanceOfMissing ==
    /\ event.op = "instance"
    /\ ~Has(providerCredentials, event.id) \/ event.id \notin Providers

\* C18: getProviderInstance(id) rejects with a not-found error and does not
\* call createProvider when id has no stored config or no descriptor;
\* otherwise it calls createProvider on the stored config and resolves with
\* what it returns, or rejects with the very error it threw.
C18_InstanceOrPropagatedError ==
    event.op = "instance" =>
        IF InstanceOfMissing
        THEN /\ event.kind = "rejected"
             /\ ~event.called
             /\ event.error \in
                    {"Provider credentials for " \o event.id \o " not found",
                     "Provider metadata for " \o event.id \o " not found"}
        ELSE LET made == createProvider(event.id, providerCredentials[event.id])
             IN  /\ event.called
                 /\ made.threw =>
                        event.kind = "rejected" /\ event.error = made.error
                 /\ ~made.threw =>
                        event.kind = "resolved" /\ event.instance = made.instance

\* createProvider of xai threw on an entry without apiKey and the caller got
\* its error
C18_Witness ==
    /\ event.op = "instance"
    /\ event.id = "xai"
    /\ event.called
    /\ event.kind = "rejected"
    /\ "apiKey" \notin DOMAIN providerCredentials["xai"]

\* C19: getProviderMetadata(id) throws a not-found error for an id that is
\* no key of providerMetadata; for a key it returns the descriptor's fields
\* as they are, plus localizedName and localizedDescription and nothing else.
C19_MetadataOrNotFound ==
    event.op = "metadata" =>
        IF event.id \notin Providers
        THEN /\ event.kind = "threw"
             /\ event.error = "Provider metadata for " \o event.id \o " not found"
        ELSE /\ event.kind = "returned"
             /\ DOMAIN event.metadata =
                    DOMAIN Metadata(event.id) \cup {"localizedName", "localizedDescription"}
             /\ \A k \in DOMAIN Metadata(event.id) :
                    event.metadata[k] = Metadata(event.id)[k]

\* getProviderMetadata has thrown for the id that is no key of the table
C19_Witness ==
    /\ event.op = "metadata"
    /\ event.id = UnknownId
    /\ event.kind = "threw"

\* C20: with no write of the credentials since the store was created and
\* every initial validation settled, configuredProviders[p] is defined for
\* every provider of the table and is the validity its hook reported for
\* the stored config of p.
C20_StatusComputedEagerly ==
    (~event.edited /\ runs = <<>>) =>
        \A p \in Providers :
            /\ Has(configuredProviders, p)
            /\ configuredProviders[p] =
                    validateProviderConfig(p, providerCredentials[p],
                        IF event.op = "probe" /\ event.id = p
                        THEN event.response ELSE NoResponse).valid

\* the store was created on a saved xai configuration, the probe of ollama
\* was answered, and both providers are configured with no edit made
C20_Witness ==
    /\ ~event.edited
    /\ runs = <<>>
    /\ event.op = "probe"
    /\ IsTrue(configuredProviders, "ollama")
    /\ IsTrue(configuredProviders, "xai")

\* ---------------------------------------------------------------- C21
\* C21: within one updateConfigurationStatus call the providers are
\* recomputed independently: at the end of the turn that called it, every
\* provider whose validation has settled has its status written, with the
\* value its hook reported, whether or not the validation of another provider
\* failed or is still awaiting its probe.
C21_SettledStatusWritten ==
    event.op = "update" =>
        \A q \in Providers :
            ~Probing(q, providerCredentials) =>
                /\ Has(configuredProviders, q)
                /\ configuredProviders[q] =
                     validateProviderConfig(q, providerCredentials[q], NoResponse).valid

\* an updateConfigurationStatus call started by an edit has written true for
\* xai while its validation of ollama is still awaiting the probe
C21_Witness ==
    /\ event.op = "update"
    /\ event.edited
    /\ event.kind = "pending"
    /\ runs # <<>>
    /\ "ollama" \in DOMAIN runs[Len(runs)]
    /\ IsTrue(configuredProviders, "xai")

\* ---------------------------------------------------------------- C22
\* C22: the decrement of isValidating of a validateConfiguration call
\* started at s whose check settles at r happens at max(r, s + debounceTime).
\* A pending setTimeout of a call of age a has debounceTime - a left, and
\* nothing left when the check took debounceTime or longer (then a stands at
\* debounceTime and the callback runs before the clock advances); the
\* callback that decrements runs when the call is debounceTime old, or, for a
\* check that took longer, at the settlement.
C22_ValidatingHeldForFloor ==
    /\ \A i \in 1..Len(form.calls) :
            form.calls[i].phase = "timer" =>
                form.calls[i].age + form.calls[i].t = debounceTime
    /\ form.op = "timer" => form.held = debounceTime

\* the probe of a call was answered TickMs after the call started: its
\* setTimeout is pending with the remaining TickMs
C22_Witness ==
    /\ form.op = "settle"
    /\ \E i \in 1..Len(form.calls) :
            /\ form.calls[i].phase = "timer"
            /\ form.calls[i].age = TickMs
            /\ form.calls[i].t = TickMs

\* ---------------------------------------------------------------- C23
\* C23: immediately after handleResetSettings the validation state of the
\* form is cleared: isValid is false, validationMessage is empty and
\* isValidating is 0.
C23_ResetClearsValidation ==
    form.op = "reset" =>
        /\ ~form.isValid
        /\ form.validationMessage = ""
        /\ form.isValidating = 0

\* handleResetSettings ran while a validateConfiguration call was still
\* counted in isValidating
C23_Witness ==
    /\ form.op = "reset"
    /\ form.calls # <<>>
    /\ form.isValidating = 0

\* ---------------------------------------------------------------- C24
\* C24: for ollama with an absolute baseUrl, when the probe of the models
\* endpoint is answered with an ok status the outcome is valid and
\* configuredProviders.ollama becomes true; when it is answered with a
\* non-ok status (500 Internal Server Error) the outcome is invalid,
\* configuredProviders.ollama becomes false and the reason carries the
\* status text.
C24_ProbeStatusDecides ==
    (event.op = "probe" /\ event.id = "ollama" /\ IsAbsoluteUrl(event.url)) =>
        /\ event.response = ResponseOk =>
                /\ event.value
                /\ IsTrue(configuredProviders, "ollama")
        /\ event.response = "Internal Server Error" =>
                /\ ~event.value
                /\ Has(configuredProviders, "ollama")
                /\ ~configuredProviders["ollama"]
                /\ event.error =
                     "Error: Ollama server returned non-ok status code: "
                        \o "Internal Server Error"

\* the probe of http://localhost:11434/v1/models was answered with status
\* 500 and configuredProviders.ollama is false
C24_Witness ==
    /\ event.op = "probe"
    /\ event.id = "ollama"
    /\ event.url = OllamaDefaultBaseUrl
    /\ event.response = "Internal Server Error"
    /\ ~IsTrue(configuredProviders, "ollama")

\* ---------------------------------------------------------------- C25
\* C25: the presence-only hook of openai-compatible, which requires apiKey
\* and baseUrl: with both empty the outcome is invalid and its reason names
\* both fields; with only apiKey given it is invalid and the reason names
\* the base URL; with a non-empty baseUrl that is not absolute the outcome is
\* the 'Base URL is not absolute' error alone, with or without apiKey; the
\* outcome is valid exactly when both are non-empty and baseUrl is absolute.
C25_PresenceAndAbsoluteUrl ==
    event.op = "hook" =>
        LET hasKey == Truthy(event.config, "apiKey")
            hasUrl == Truthy(event.config, "baseUrl")
            absolute == hasUrl /\ IsAbsoluteUrl(event.config["baseUrl"])
        IN  /\ (~hasKey /\ ~hasUrl) =>
                    /\ ~event.value
                    /\ event.error =
                         "Error: API key is required, Error: Base URL is required"
            /\ (hasKey /\ ~hasUrl) =>
                    /\ ~event.value
                    /\ event.error = "Error: Base URL is required"
            /\ (hasUrl /\ ~absolute) =>
                    /\ ~event.value
                    /\ event.error = "Base URL is not absolute. Check your input."
            /\ event.value <=> (hasKey /\ absolute)

\* the hook was called without apiKey and with a baseUrl without scheme: the
\* 'not absolute' reason came back
C25_Witness ==
    /\ event.op = "hook"
    /\ ~Truthy(event.config, "apiKey")
    /\ Has(event.config, "baseUrl")
    /\ event.config["baseUrl"] = RelativeUrl
    /\ event.error = "Base URL is not absolute. Check your input."

\* ---------------------------------------------------------------- C26
\* C26: a provider's entry is never removed: from store creation on, through
\* the initializeProvider calls of the store and of the forms' mounts, form
\* edits and resets, every id of the descriptor table has an entry in
\* providerCredentials.
C26_EntryNeverRemoved ==
    \A p \in Providers : Has(providerCredentials, p)

\* handleResetSettings of the ollama form has replaced the entry: it is
\* there, with no field
C26_Witness ==
    /\ event.op = "update"
    /\ Has(providerCredentials, "ollama")
    /\ providerCredentials["ollama"] = EmptyObject

\* ---------------------------------------------------------------- C27
\* an edit of apiKey or baseUrl made through a settings form, with the write
\* back of the form's watcher
FormFieldEdit ==
    \/ \E k \in {"apiKey", "baseUrl"} : \E v \in FieldInputs("xai", k) : XaiEdit(k, v)
    \/ \E v \in OllamaBaseUrls : OllamaEdit(v)

\* the fields of the entry of p besides apiKey and baseUrl
OtherFields(creds, p) == (DOMAIN creds[p]) \ {"apiKey", "baseUrl"}

\* C27: an edit of apiKey or baseUrl made through the settings form changes
\* only those two fields of one provider's entry: no entry is added or
\* removed, and every entry keeps its fields other than apiKey and baseUrl,
\* with their values; the entries of the providers the form is not about
\* keep apiKey and baseUrl too.
C27_EditTouchesTwoFields ==
    [][FormFieldEdit =>
        /\ DOMAIN providerCredentials' = DOMAIN providerCredentials
        /\ \A p \in DOMAIN providerCredentials :
                /\ OtherFields(providerCredentials', p) = OtherFields(providerCredentials, p)
                /\ \A k \in OtherFields(providerCredentials, p) :
                        providerCredentials'[p][k] = providerCredentials[p][k]
        /\ \E q \in DOMAIN providerCredentials :
                \A p \in (DOMAIN providerCredentials) \ {q} :
                    providerCredentials'[p] = providerCredentials[p]
    ]_vars

\* apiKey was edited in the xai form and written back by the form's watcher,
\* and the stored field the form does not know is still there
C27_Witness ==
    /\ event.op = "update"
    /\ event.edited
    /\ Has(providerCredentials["xai"], "organization")
    /\ providerCredentials["xai"]["organization"] = "org"
    /\ providerCredentials["xai"]["apiKey"] = "xai-key-2"

\* ---------------------------------------------------------------- C28
\* C28: each configured category view is exactly the available list cut down
\* to its category and to the configured providers: a descriptor d is in
\* configuredChat/Speech/TranscriptionProvidersMetadata if and only if d is in
\* availableProvidersMetadata, its category is that category and
\* configuredProviders[d] is true.
C28_ConfiguredViewIsIntersection ==
    \A c \in {"chat", "speech", "transcription"} : \A d \in Descriptors :
        d \in ConfiguredOfCategory(availability.value, c, configuredProviders)
            <=> (d \in Listed /\ Category(d) = c /\ IsTrue(configuredProviders, d))

\* a configured speech provider is not in the available list and so in no
\* configured view, while xai, configured and available, is in the chat view
C28_Witness ==
    /\ IsTrue(configuredProviders, "browser-local-audio-speech")
    /\ "browser-local-audio-speech" \notin Listed
    /\ "app-local-audio-speech" \in Listed
    /\ ConfiguredOfCategory(availability.value, "speech", configuredProviders) = {}
    /\ ConfiguredOfCategory(availability.value, "chat", configuredProviders) = {"xai"}

\* ---------------------------------------------------------------- C29
\* C29: for a provider whose row has no listModels capability (and which
\* has its entry in providerCredentials, as every row has in the store),
\* fetchModelsForProvider is not an error: it resolves with an empty list,
\* leaves modelLoadError[p] null and the cached list of p empty, and ends
\* with isLoadingModels[p] false.
C29_NoListModelsIsNoError ==
    (/\ event.op = "fetch"
     /\ event.id = Player2Speech
     /\ Has(providerCredentials, Player2Speech)) =>
        /\ event.kind = "resolved"
        /\ event.returned = <<>>
        /\ Has(modelLoadError, Player2Speech)
        /\ modelLoadError[Player2Speech] = NULL
        /\ getModelsForProvider(Player2Speech) = <<>>
        /\ Has(isLoadingModels, Player2Speech)
        /\ ~isLoadingModels[Player2Speech]

\* fetchModelsForProvider('player2-speech') has returned, its entry being
\* stored
C29_Witness ==
    /\ event.op = "fetch"
    /\ event.id = Player2Speech
    /\ Has(providerCredentials, Player2Speech)
    /\ Has(availableModels, Player2Speech)
    /\ availableModels[Player2Speech] = <<>>

\* ---------------------------------------------------------------- C30
\* a validation of ollama started by the latest updateConfigurationStatus
\* call is awaiting its probe
OllamaProbeStarted ==
    \E i \in 1..Len(runs) : "ollama" \in DOMAIN runs[i] /\ ~runs[i]["ollama"].late

\* C30: the hook of ollama issues its probe only after the presence checks
\* have passed: every probe awaited was issued for a non-empty absolute
\* baseUrl, and an updateConfigurationStatus call that finds baseUrl empty
\* or not absolute starts no probe and has the invalid outcome at once.
C30_ProbeOnlyAfterPresenceChecks ==
    /\ \A i \in 1..Len(runs) :
            "ollama" \in DOMAIN runs[i] =>
                runs[i]["ollama"].url # "" /\ IsAbsoluteUrl(runs[i]["ollama"].url)
    /\ (/\ event.op = "update"
        /\ \/ ~Truthy(providerCredentials["ollama"], "baseUrl")
           \/ ~IsAbsoluteUrl(providerCredentials["ollama"]["baseUrl"])) =>
            /\ ~OllamaProbeStarted
            /\ Has(configuredProviders, "ollama")
            /\ ~configuredProviders["ollama"]

\* a baseUrl without scheme was typed into the ollama form while an earlier
\* probe was still awaited: no new probe, and ollama is not configured
C30_Witness ==
    /\ event.op = "update"
    /\ Has(providerCredentials["ollama"], "baseUrl")
    /\ providerCredentials["ollama"]["baseUrl"] = RelativeUrl
    /\ runs # <<>>
    /\ ~OllamaProbeStarted
    /\ ~IsTrue(configuredProviders, "ollama")

\* ---------------------------------------------------------------- C31
\* C31: initializeProvider(p) on an id without entry creates the entry
\* { baseUrl: B }, B being the baseUrl of the row's defaultOptions(), or ''
\* when the row has no defaultOptions or no default baseUrl; no other default
\* field is copied, and the call starts no request of its own (no model fetch
\* is started by the turn it causes).
C31_InitializeSeedsBaseUrl ==
    (event.op = "initialize" /\ event.value) =>
        /\ Has(providerCredentials, event.id)
        /\ DOMAIN providerCredentials[event.id] = {"baseUrl"}
        /\ providerCredentials[event.id]["baseUrl"] =
                IF event.id = "ollama" THEN "http://localhost:11434/v1/"
                ELSE IF event.id = ElevenLabs THEN "https://unspeech.hyp3r.link/v1/"
                ELSE ""
        /\ event.started = {}
        /\ fetches = <<>>

\* initializeProvider has created the entry of elevenlabs, whose defaults
\* hold voiceSettings next to baseUrl
C31_Witness ==
    /\ event.op = "initialize"
    /\ event.id = ElevenLabs
    /\ event.value
    /\ Has(defaultOptions(ElevenLabs), "voiceSettings")
    /\ providerCredentials[ElevenLabs] = [baseUrl |-> ElevenLabsDefaultBaseUrl]

\* ---------------------------------------------------------------- C32
\* C32 as stated: the counter isValidating of the form is never negative,
\* whatever the interleaving of validation starts, completions with their
\* delayed decrements, debounced runs on an empty required field, and resets.
C32_ValidatingNeverNegative == form.isValidating >= 0

\* ---------------------------------------------------------------- C33
\* C33 as stated: the form never shows success together with a failure
\* reason: whenever isValidating is 0 and isValid is true, validationMessage
\* is empty.
C33_NoSuccessWithReason ==
    (form.isValidating = 0 /\ form.isValid) => form.validationMessage = ""

\* ---------------------------------------------------------------- C34
\* C34 as stated: whenever no validation is in flight, configuredProviders[p]
\* is true if and only if the validator of p accepts the config stored for p
\* (for a config that is probed: if and only if the probe answered last, of
\* the stored baseUrl, was accepted).
C34_StatusMatchesStoredConfig ==
    runs = <<>> =>
        \A p \in Providers :
            IF ~Probing(p, providerCredentials)
            THEN IsTrue(configuredProviders, p)
                    <=> validateProviderConfig(p, providerCredentials[p], NoResponse).valid
            ELSE (event.op = "probe" /\ event.id = p
                    /\ event.url = providerCredentials[p]["baseUrl"])
                    => (IsTrue(configuredProviders, p) <=> event.value)

\* ---------------------------------------------------------------- C35
\* C35 as stated: isLoadingModels[p] is true whenever a
\* fetchModelsForProvider call of p is in flight, also when several calls of
\* the same provider overlap.
C35_LoadingWhileFetching ==
    \A i \in 1..Len(fetches) : IsTrue(isLoadingModels, fetches[i].p)

\* ---------------------------------------------------------------- C36
\* C36 as stated: when two fetches of the same provider overlap and both
\* succeed, the cache holds at quiescence the list of the fetch started
\* last. Here: a fetch of p has succeeded while a fetch of p started before
\* it was pending, and such an earlier fetch now succeeds as the last one in
\* flight; the cache still holds the list of the later fetch.
C36_LatestFetchWins ==
    [][(/\ event.op = "fetched"
        /\ event'.op = "fetched"
        /\ event'.id = event.id
        /\ event'.older < event.older
        /\ FetchesOf(fetches', event.id) = {})
            => availableModels'[event.id] = event.returned]_vars

\* ---------------------------------------------------------------- C37
\* the xai form is mounted and nothing of it is pending: no watcher job, no
\* debounce timer, no validateConfiguration call
XaiFormQuiet ==
    /\ form.id = "xai"
    /\ Settled
    /\ form.debounce = NoTimer
    /\ form.calls = <<>>

\* C37 as stated: whenever no validation of xai is in flight in the form or in
\* the store, the form's isValid is the status updateConfigurationStatus
\* writes for the stored apiKey and baseUrl.
C37_FormAgreesWithRegistry ==
    XaiFormQuiet =>
        (form.isValid <=>
            IsTrue(ConfiguredAfterRun(configuredProviders, providerCredentials), "xai"))

\* ---------------------------------------------------------------- C38
\* C38: right after a run of the debounced handler, when the required field
\* (apiKey for xai, baseUrl for ollama) is empty after trimming the run has
\* started no validateConfiguration call and isValid is false,
\* validationMessage is empty and isValidating is 0; otherwise the run has
\* started exactly one validateConfiguration call.
C38_BlankFieldStartsNoValidation ==
    form.op = "debounce" =>
        IF Trim(FormFields(form.id, providerCredentials)[RequiredField(form.id)]) = ""
        THEN /\ form.started = 0
             /\ ~form.isValid
             /\ form.validationMessage = ""
             /\ form.isValidating = 0
        ELSE form.started = 1

\* the handler of the ollama form has run on a baseUrl of white space only
\* while an earlier validateConfiguration call was awaiting its probe
C38_Witness ==
    /\ form.op = "debounce"
    /\ form.id = "ollama"
    /\ FormFields(form.id, providerCredentials)[RequiredField(form.id)] = Blank
    /\ form.started = 0
    /\ form.isValidating = 0
    /\ \E i \in 1..Len(form.calls) : form.calls[i].phase = "hook"

\* ---------------------------------------------------------------- C39
\* C39: every model of allAvailableModels carries a provider whose
\* configuredProviders entry is true, and no cached model of a provider that
\* is not configured is an element of allAvailableModels.
C39_OnlyConfiguredModels ==
    /\ \A i \in 1..Len(allAvailableModels) :
            IsTrue(configuredProviders, allAvailableModels[i].provider)
    /\ \A p \in Providers : ~IsTrue(configuredProviders, p) =>
            \A j \in 1..Len(getModelsForProvider(p)) :
                \A i \in 1..Len(allAvailableModels) :
                    allAvailableModels[i] # getModelsForProvider(p)[j]

\* xai is no longer configured, the list fetched for it is still cached and
\* allAvailableModels shows none of it
C39_Witness ==
    /\ ~IsTrue(configuredProviders, "xai")
    /\ getModelsForProvider("xai") # <<>>
    /\ event.op = "update"
    /\ allAvailableModels = <<>>

====
